---- MODULE Spec2Model ----
(***************************************************************************)
(* A model of the oui crate (src/src/lib.rs): building the OUI vendor      *)
(* database from a Wireshark manuf file, querying it by MAC address, and   *)
(* exporting / re-importing it as bincode bytes.                           *)
(*                                                                         *)
(* Text is a sequence of one-character strings.  A u64 is a triple of      *)
(* limbs <<a, b, c>> standing for a * 2^48 + b * 2^24 + c, with a < 2^16   *)
(* and b, c < 2^24, so that all 64 bits of the code's arithmetic are kept. *)
(* Option<T> is <<>> for None and <<x>> for Some(x).                       *)
(***************************************************************************)
EXTENDS Integers, Sequences, FiniteSets, TLC

(***************************************************************************)
(* Characters                                                              *)
(***************************************************************************)

\* The printable ASCII characters, in code order from 32 (space) to 126.
Ascii ==
  <<" ", "!", "\"", "#", "$", "%", "&", "'", "(", ")", "*", "+", ",", "-",
    ".", "/", "0", "1", "2", "3", "4", "5", "6", "7", "8", "9", ":", ";",
    "<", "=", ">", "?", "@", "A", "B", "C", "D", "E", "F", "G", "H", "I",
    "J", "K", "L", "M", "N", "O", "P", "Q", "R", "S", "T", "U", "V", "W",
    "X", "Y", "Z", "[", "\\", "]", "^", "_", "<grave>", "a", "b", "c", "d", "e",
    "f", "g", "h", "i", "j", "k", "l", "m", "n", "o", "p", "q", "r", "s",
    "t", "u", "v", "w", "x", "y", "z", "{", "|", "}", "~">>

\* The byte that encodes character c (UTF-8 of an ASCII character).
Code(c) ==
  IF c = "\t" THEN 9 ELSE 31 + (CHOOSE i \in 1..Len(Ascii) : Ascii[i] = c)

\* Whether byte b encodes a character of the model's alphabet.
IsCharByte(b) == b = 9 \/ (b >= 32 /\ b <= 126)

\* The character encoded by byte b.
CharOf(b) == IF b = 9 THEN "\t" ELSE Ascii[b - 31]

\* char::is_whitespace, on the alphabet above.
IsWhitespace(c) == c = " " \/ c = "\t"

\* char::to_uppercase, on the alphabet above.
UpperChar(c) ==
  IF Code(c) >= 97 /\ Code(c) <= 122 THEN CharOf(Code(c) - 32) ELSE c

\* char::to_digit(radix): the digit's value, or -1 when c is no digit.
ToDigit(c, radix) ==
  LET k == Code(c)
      v == IF k >= 48 /\ k <= 57 THEN k - 48
           ELSE IF k >= 97 /\ k <= 122 THEN k - 97 + 10
           ELSE IF k >= 65 /\ k <= 90 THEN k - 65 + 10
           ELSE -1
  IN IF v >= 0 /\ v < radix THEN v ELSE -1

(***************************************************************************)
(* Strings                                                                 *)
(***************************************************************************)

\* str::replace(c, ""): s without the occurrences of character c.
RemoveChar(s, c) == SelectSeq(s, LAMBDA x : x # c)

\* str::to_uppercase.
RECURSIVE to_uppercase(_)
to_uppercase(s) ==
  IF s = <<>> THEN <<>> ELSE <<UpperChar(Head(s))>> \o to_uppercase(Tail(s))

RECURSIVE TrimStart(_)
TrimStart(s) ==
  IF s # <<>> /\ IsWhitespace(Head(s)) THEN TrimStart(Tail(s)) ELSE s

RECURSIVE TrimEnd(_)
TrimEnd(s) ==
  IF s # <<>> /\ IsWhitespace(s[Len(s)])
  THEN TrimEnd(SubSeq(s, 1, Len(s) - 1))
  ELSE s

\* str::trim.
Trim(s) == TrimEnd(TrimStart(s))

\* Regex "[\t]+" with replace_all(entry, "|"): every maximal run of tabs
\* becomes one '|'.
RECURSIVE ReplaceTabRuns(_)
ReplaceTabRuns(s) ==
  IF s = <<>> THEN <<>>
  ELSE IF Head(s) = "\t"
       THEN IF Len(s) >= 2 /\ s[2] = "\t"
            THEN ReplaceTabRuns(Tail(s))
            ELSE <<"|">> \o ReplaceTabRuns(Tail(s))
       ELSE <<Head(s)>> \o ReplaceTabRuns(Tail(s))

\* str::split(sep).collect(): the pieces between the separators, empty
\* pieces included; a string with n separators gives n + 1 pieces.
RECURSIVE SplitFrom(_, _, _)
SplitFrom(s, sep, cur) ==
  IF s = <<>> THEN <<cur>>
  ELSE IF Head(s) = sep
       THEN <<cur>> \o SplitFrom(Tail(s), sep, <<>>)
       ELSE SplitFrom(Tail(s), sep, Append(cur, Head(s)))

Split(s, sep) == SplitFrom(s, sep, <<>>)

(***************************************************************************)
(* u64 arithmetic on limbs                                                 *)
(***************************************************************************)

Limb == 2^24

TopLimb == 2^16

Zero64 == <<0, 0, 0>>

\* The literal 0xFFFF_FFFF_FFFF.
All48 == <<0, Limb - 1, Limb - 1>>

Lt64(x, y) ==
  \/ x[1] < y[1]
  \/ x[1] = y[1] /\ x[2] < y[2]
  \/ x[1] = y[1] /\ x[2] = y[2] /\ x[3] < y[3]

Le64(x, y) == x = y \/ Lt64(x, y)

\* x << r on a u64, for r < 24: the bits shifted out of the top are lost.
ShlBits(x, r) ==
  << ( (IF r < 16 THEN (x[1] % (2^(16 - r))) * (2^r) ELSE 0)
         + (x[2] \div (2^(24 - r))) ) % TopLimb,
     ((x[2] % (2^(24 - r))) * (2^r)) + (x[3] \div (2^(24 - r))),
     (x[3] % (2^(24 - r))) * (2^r) >>

\* x << 24 * n on a u64, for n < 3.
ShlLimbs(x, n) ==
  IF n = 0 THEN x
  ELSE IF n = 1 THEN <<x[2] % TopLimb, x[3], 0>>
  ELSE <<x[3] % TopLimb, 0, 0>>

\* x << n, for n < 64.
Shl64(x, n) == ShlBits(ShlLimbs(x, n \div 24), n % 24)

\* x >> r on a u64, for r < 24.
ShrBits(x, r) ==
  << x[1] \div (2^r),
     ((x[1] % (2^r)) * (2^(24 - r))) + (x[2] \div (2^r)),
     ((x[2] % (2^r)) * (2^(24 - r))) + (x[3] \div (2^r)) >>

\* x >> 24 * n on a u64, for n < 3.
ShrLimbs(x, n) ==
  IF n = 0 THEN x
  ELSE IF n = 1 THEN <<0, x[1], x[2]>>
  ELSE <<0, 0, x[1]>>

\* x >> n, for n < 64.
Shr64(x, n) == ShrBits(ShrLimbs(x, n \div 24), n % 24)

RECURSIVE BitOr(_, _)
BitOr(m, n) ==
  IF m = 0 THEN n
  ELSE IF n = 0 THEN m
  ELSE (IF (m % 2) = 1 \/ (n % 2) = 1 THEN 1 ELSE 0) + (2 * BitOr(m \div 2, n \div 2))

\* x | y on u64.
Or64(x, y) == <<BitOr(x[1], y[1]), BitOr(x[2], y[2]), BitOr(x[3], y[3])>>

\* acc * radix + d on u64 with checked arithmetic, for radix 16: <<>> on
\* overflow.
MulAdd16(acc, d) ==
  IF acc[1] >= TopLimb \div 16 THEN <<>>
  ELSE << << (acc[1] * 16) + (acc[2] \div (Limb \div 16)),
             ((acc[2] % (Limb \div 16)) * 16) + (acc[3] \div (Limb \div 16)),
             ((acc[3] % (Limb \div 16)) * 16) + d >> >>

\* The digits of an integer literal: the text after one optional leading
\* '+', or <<>> (no digits) for the empty string and for a lone sign.
\* Unsigned types give '-' no meaning: it stays in the digits and is
\* rejected there.
Digits(s) ==
  IF s = <<>> THEN <<>>
  ELSE IF Len(s) = 1 /\ (s[1] = "+" \/ s[1] = "-") THEN <<>>
  ELSE IF s[1] = "+" THEN Tail(s)
  ELSE s

RECURSIVE FoldHex(_, _)
FoldHex(ds, acc) ==
  IF ds = <<>> THEN <<acc>>
  ELSE IF ToDigit(Head(ds), 16) < 0 THEN <<>>
  ELSE LET next == MulAdd16(acc, ToDigit(Head(ds), 16))
       IN IF next = <<>> THEN <<>> ELSE FoldHex(Tail(ds), next[1])

\* u64::from_str_radix(s, 16): <<v>> for Ok(v), <<>> for Err.
u64_from_str_radix_16(s) ==
  IF Digits(s) = <<>> THEN <<>> ELSE FoldHex(Digits(s), Zero64)

RECURSIVE FoldDec(_, _)
FoldDec(ds, acc) ==
  IF ds = <<>> THEN <<acc>>
  ELSE IF ToDigit(Head(ds), 10) < 0 THEN <<>>
  ELSE IF (acc * 10) + ToDigit(Head(ds), 10) > 255 THEN <<>>
  ELSE FoldDec(Tail(ds), (acc * 10) + ToDigit(Head(ds), 10))

\* u8::from_str_radix(s, 10): <<v>> for Ok(v), <<>> for Err.
u8_from_str_radix_10(s) ==
  IF Digits(s) = <<>> THEN <<>> ELSE FoldDec(Digits(s), 0)

(***************************************************************************)
(* create_oui_db_from_file: one line of the file                           *)
(***************************************************************************)

None == <<>>

Some(x) == <<x>>

\* The mask of an undecorated block specifier.
DefaultMask == 24

\* The smallest and largest mask a block specifier may carry.
MinMask == 8

MaxMask == 48

\* An OuiEntry.
OuiEntry(short, long, cmt) ==
  [name_short |-> short, name_long |-> long, comment |-> cmt]

\* The test guarding the loop body: only lines that are not empty and do
\* not start with '#' are processed.
HasData(entry) == ~((entry # <<>> /\ entry[1] = "#") \/ entry = <<>>)

\* The closure mapped over the raw fields: drop every '#', then trim.
CleanField(field) == Trim(RemoveChar(field, "#"))

\* fields_cleaned: the line with its tab runs replaced by '|', split on
\* '|', each piece cleaned.
FieldsCleaned(entry) ==
  LET fields_raw == Split(ReplaceTabRuns(entry), "|")
  IN [i \in 1..Len(fields_raw) |-> CleanField(fields_raw[i])]

\* ParseMask without the test of the range [8, 48].
ParseMaskNoRange(oui_and_mask) ==
  IF Len(oui_and_mask) = 1 THEN <<24>>
  ELSE IF Len(oui_and_mask) = 2 THEN u8_from_str_radix_10(oui_and_mask[2])
  ELSE <<>>

\* The mask of the block specifier split at '/': <<m>>, or <<>> when the
\* line is rejected for its mask or for its number of separators.
ParseMask(oui_and_mask) ==
  IF Len(oui_and_mask) = 1 THEN Some(DefaultMask)
  ELSE IF Len(oui_and_mask) = 2
       THEN LET m == u8_from_str_radix_10(oui_and_mask[2])
            IN IF m = None THEN None
               ELSE IF ~(m[1] >= MinMask /\ m[1] <= MaxMask) THEN None
               ELSE m
       ELSE None

\* The whole MAC string: upper case, without ':', '-' and '.'.
StripOui(s) == RemoveChar(RemoveChar(RemoveChar(to_uppercase(s), ":"), "-"), ".")

\* OuiStart without the shift of the 24-bit default.
OuiStartNoShift(oui_int, mask) == oui_int

\* oui_start: shifted over for the undecorated 24-bit default, as written
\* otherwise.
OuiStart(oui_int, mask) ==
  IF mask = DefaultMask THEN Shl64(oui_int, 24) ELSE oui_int

\* oui_end: oui_start | 0xFFFF_FFFF_FFFF >> mask.
OuiEnd(oui_start, mask) == Or64(oui_start, Shr64(All48, mask))

\* The entry built from the cleaned fields.
EntryData(fields_cleaned) ==
  OuiEntry(fields_cleaned[2],
           IF Len(fields_cleaned) >= 3 THEN Some(fields_cleaned[3]) ELSE None,
           IF Len(fields_cleaned) = 4 THEN Some(fields_cleaned[4]) ELSE None)

\* The body of the loop over the lines, for one line: the line is skipped,
\* the function returns an error, or (key, value) is inserted.
Body(entry) ==
  IF ~HasData(entry) THEN [kind |-> "skip"]
  ELSE
    LET fields_cleaned == FieldsCleaned(entry) IN
    IF ~(Len(fields_cleaned) >= 2 /\ Len(fields_cleaned) <= 4)
    THEN [kind |-> "err", why |-> "unexpected number of fields extracted"]
    ELSE
      LET oui_and_mask == Split(fields_cleaned[1], "/")
          mask == ParseMask(oui_and_mask)
      IN
      IF mask = None
      THEN [kind |-> "err", why |-> "mask"]
      ELSE
        LET oui_int == u64_from_str_radix_16(StripOui(oui_and_mask[1])) IN
        IF oui_int = None
        THEN [kind |-> "err", why |-> "could not parse stripped OUI"]
        ELSE
          LET oui_start == OuiStart(oui_int[1], mask[1])
              oui_end == OuiEnd(oui_start, mask[1])
          IN [kind |-> "insert",
              key |-> <<oui_start, oui_end>>,
              value |-> EntryData(fields_cleaned)]

\* Insert that keeps the value a key already has.
InsertKeepFirst(map, key, value) ==
  [k \in DOMAIN map \cup {key} |-> IF k \in DOMAIN map THEN map[k] ELSE value]

\* BTreeMap::insert: the value under key is replaced or added.
Insert(map, key, value) ==
  [k \in DOMAIN map \cup {key} |-> IF k = key THEN value ELSE map[k]]

\* An empty OuiMap.
EmptyMap == [k \in {} |-> None]

(***************************************************************************)
(* OuiDatabase::query and mac_to_u64                                       *)
(***************************************************************************)

\* Ord on the keys (u64, u64): by lo, then by hi.
KeyLt(j, k) == Lt64(j[1], k[1]) \/ (j[1] = k[1] /\ Lt64(j[2], k[2]))

\* The keys of a map in the order a BTreeMap iterates them.
RECURSIVE SortedKeys(_)
SortedKeys(keys) ==
  IF keys = {} THEN <<>>
  ELSE LET first == CHOOSE k \in keys : \A j \in keys : j = k \/ KeyLt(k, j)
       IN <<first>> \o SortedKeys(keys \ {first})

\* mac_to_u64: the six bytes, big-endian, below two zero bytes.
mac_to_u64(mac_bytes) ==
  << 0,
     (mac_bytes[1] * 65536) + (mac_bytes[2] * 256) + mac_bytes[3],
     (mac_bytes[4] * 65536) + (mac_bytes[5] * 256) + mac_bytes[6] >>

\* Results with the upper end of a range left out.
ResultsExclusiveHi(map, q) ==
  LET keys == SortedKeys(DOMAIN map)
      hits == SelectSeq(keys, LAMBDA k : Le64(k[1], q) /\ Lt64(q, k[2]))
  IN [i \in 1..Len(hits) |-> <<hits[i], map[hits[i]]>>]

\* results: the (key, value) pairs whose range holds the query, in the
\* order of iteration.
Results(map, q) ==
  LET keys == SortedKeys(DOMAIN map)
      hits == SelectSeq(keys, LAMBDA k : Le64(k[1], q) /\ Le64(q, k[2]))
  IN [i \in 1..Len(hits) |-> <<hits[i], map[hits[i]]>>]

\* query that already rejects two results.
queryRejectsTwo(map, q) ==
  LET hits == SelectSeq(SortedKeys(DOMAIN map),
                        LAMBDA k : Le64(k[1], q) /\ Le64(q, k[2]))
  IN IF Len(hits) >= 2 THEN [kind |-> "Err"]
     ELSE IF Len(hits) > 0
          THEN [kind |-> "Ok", value |-> <<map[hits[Len(hits)]]>>]
          ELSE [kind |-> "Ok", value |-> <<>>]

\* OuiDatabase::query: an error for more than two results, else the last
\* result's entry, else None.
query(map, q) ==
  LET results == Results(map, q) IN
  IF Len(results) > 2 THEN [kind |-> "Err"]
  ELSE IF Len(results) > 0
       THEN [kind |-> "Ok", value |-> Some(results[Len(results)][2])]
       ELSE [kind |-> "Ok", value |-> None]

(***************************************************************************)
(* export and new_from_export: the bincode encoding of the OuiMap          *)
(***************************************************************************)

\* U64Bytes with the most significant byte first.
U64BytesBigEndian(x) ==
  << x[1] \div 256, x[1] % 256,
     x[2] \div 65536, (x[2] \div 256) % 256, x[2] % 256,
     x[3] \div 65536, (x[3] \div 256) % 256, x[3] % 256 >>

\* A u64 as bincode writes it: eight bytes, least significant first.
U64Bytes(x) ==
  << x[3] % 256, (x[3] \div 256) % 256, x[3] \div 65536,
     x[2] % 256, (x[2] \div 256) % 256, x[2] \div 65536,
     x[1] % 256, x[1] \div 256 >>

\* A String: its length in bytes as a u64, then its bytes.
StringBytes(s) == U64Bytes(<<0, 0, Len(s)>>) \o [i \in 1..Len(s) |-> Code(s[i])]

\* An Option<String>: a tag byte, then the string if there is one.
OptionBytes(o) == IF o = None THEN <<0>> ELSE <<1>> \o StringBytes(o[1])

\* An OuiEntry: its fields in declaration order.
EntryBytes(e) ==
  StringBytes(e.name_short) \o OptionBytes(e.name_long) \o OptionBytes(e.comment)

\* A key: the two u64 of the tuple.
KeyBytes(k) == U64Bytes(k[1]) \o U64Bytes(k[2])

RECURSIVE PairsBytes(_, _)
PairsBytes(map, keys) ==
  IF keys = <<>> THEN <<>>
  ELSE KeyBytes(Head(keys)) \o EntryBytes(map[Head(keys)])
         \o PairsBytes(map, Tail(keys))

\* bincode::serialize(&self.database): the number of pairs as a u64, then
\* the pairs in the order of iteration.
serialize(map) ==
  U64Bytes(<<0, 0, Cardinality(DOMAIN map)>>)
    \o PairsBytes(map, SortedKeys(DOMAIN map))

\* The readers return [ok, val, rest]: the value read and the bytes after
\* it, or ok = FALSE when the bytes do not hold such a value.
Fail == [ok |-> FALSE]

ReadU64(bs) ==
  IF Len(bs) < 8 THEN Fail
  ELSE [ok |-> TRUE,
        val |-> << bs[7] + (256 * bs[8]),
                   bs[4] + (256 * bs[5]) + (65536 * bs[6]),
                   bs[1] + (256 * bs[2]) + (65536 * bs[3]) >>,
        rest |-> SubSeq(bs, 9, Len(bs))]

ReadString(bs) ==
  LET n == ReadU64(bs) IN
  IF ~n.ok THEN Fail
  ELSE IF n.val[1] # 0 \/ n.val[2] # 0 \/ n.val[3] > Len(n.rest) THEN Fail
  ELSE IF \E i \in 1..n.val[3] : ~IsCharByte(n.rest[i]) THEN Fail
  ELSE [ok |-> TRUE,
        val |-> [i \in 1..n.val[3] |-> CharOf(n.rest[i])],
        rest |-> SubSeq(n.rest, n.val[3] + 1, Len(n.rest))]

ReadOption(bs) ==
  IF bs = <<>> THEN Fail
  ELSE IF bs[1] = 0 THEN [ok |-> TRUE, val |-> None, rest |-> Tail(bs)]
  ELSE IF bs[1] = 1
       THEN LET s == ReadString(Tail(bs))
            IN IF ~s.ok THEN Fail
               ELSE [ok |-> TRUE, val |-> Some(s.val), rest |-> s.rest]
       ELSE Fail

ReadEntry(bs) ==
  LET short == ReadString(bs) IN
  IF ~short.ok THEN Fail
  ELSE LET long == ReadOption(short.rest) IN
       IF ~long.ok THEN Fail
       ELSE LET cmt == ReadOption(long.rest) IN
            IF ~cmt.ok THEN Fail
            ELSE [ok |-> TRUE,
                  val |-> OuiEntry(short.val, long.val, cmt.val),
                  rest |-> cmt.rest]

ReadKey(bs) ==
  LET lo == ReadU64(bs) IN
  IF ~lo.ok THEN Fail
  ELSE LET hi == ReadU64(lo.rest) IN
       IF ~hi.ok THEN Fail
       ELSE [ok |-> TRUE, val |-> <<lo.val, hi.val>>, rest |-> hi.rest]

RECURSIVE ReadPairs(_, _, _)
ReadPairs(bs, n, map) ==
  IF n = 0 THEN Some(map)
  ELSE LET k == ReadKey(bs) IN
       IF ~k.ok THEN None
       ELSE LET e == ReadEntry(k.rest) IN
            IF ~e.ok THEN None
            ELSE ReadPairs(e.rest, n - 1, Insert(map, k.val, e.val))

\* bincode::deserialize(data) into an OuiMap: <<map>>, or <<>> for Err.
deserialize(data) ==
  LET n == ReadU64(data) IN
  IF ~n.ok THEN None
  ELSE IF n.val[1] # 0 \/ n.val[2] # 0 THEN None
  ELSE ReadPairs(n.rest, n.val[3], EmptyMap)

(***************************************************************************)
(* The lines a file is made of, and the addresses queried                  *)
(***************************************************************************)

\* A /24 block, S4's parent.
LParent ==
  <<"0", "0", ":", "5", "0", ":", "C", "2", "\t", "P", "a", "r", "e", "n", "t">>

\* A /36 block inside LParent's, with a larger lo (S4's child).
LChild ==
  <<"0", "0", ":", "5", "0", ":", "C", "2", ":", "0", "0", ":", "1", "0", ":", "0", "0", "/", "3", "6", "\t", "C", "h", "i", "l", "d">>

\* A /36 block inside LParent's that starts at the same lo.
LKid ==
  <<"0", "0", "-", "5", "0", "-", "c", "2", "-", "0", "0", "-", "0", "0", "-", "0", "0", "/", "3", "6", "\t", "K", "i", "d", "\t", "K", "i", "d", " ", "I", "n", "c", ".">>

\* A /40 block inside LChild's: a third level of nesting.
LDeep ==
  <<"+", "0", "0", "5", "0", ".", "C", "2", "0", "0", ".", "1", "0", "0", "0", "/", "+", "4", "0", "\t", "D", "e", "e", "p">>

\* LParent's block again, with another entry and all four fields.
LOther ==
  <<"0", "0", ":", "5", "0", ":", "C", "2", "\t", "O", "t", "h", "e", "r", "\t", "O", "t", "h", "e", "r", " ", "I", "n", "c", ".", "\t", "#", " ", "a", " ", "n", "o", "t", "e">>

\* S6: two hex digits and no mask.
LDefault ==
  <<"F", "F", "\t", "X">>

\* A block specifier followed by a tab and nothing else.
LNoName ==
  <<"0", "0", ":", "0", "0", ":", "1", "8", "\t">>

\* A /36 block specifier not written out in full.
LUnaligned ==
  <<"0", "0", ":", "0", "0", ":", "0", "1", "/", "3", "6", "\t", "U">>

\* An empty line.
LEmpty ==
  <<>>

\* A comment line.
LComment ==
  <<"#", " ", "c">>

\* A line of spaces.
LSpaces ==
  <<" ", " ">>

\* A line of one tab.
LTab ==
  <<"\t">>

\* A comment after leading whitespace.
LIndented ==
  <<" ", "#", " ", "c">>

\* One field.
LOneField ==
  <<"F", "o", "o">>

\* Five fields.
LFive ==
  <<"1", "\t", "2", "\t", "3", "\t", "4", "\t", "5">>

\* A mask below 8.
LMask7 ==
  <<"0", "0", ":", "0", "0", ":", "1", "8", "/", "7", "\t", "X">>

\* A mask above 48.
LMask49 ==
  <<"0", "0", ":", "0", "0", ":", "1", "8", "/", "4", "9", "\t", "X">>

\* A mask that is no number.
LMaskX ==
  <<"0", "0", ":", "0", "0", ":", "1", "8", "/", "x", "\t", "X">>

\* A mask that does not fit a u8.
LMask300 ==
  <<"0", "0", ":", "0", "0", ":", "1", "8", "/", "3", "0", "0", "\t", "X">>

\* Two '/' in the block specifier.
LTwoSlash ==
  <<"0", "0", "/", "2", "4", "/", "1", "\t", "X">>

\* A prefix that is not hexadecimal.
LNotHex ==
  <<"0", "G", "\t", "X">>

\* An empty prefix.
LNoPrefix ==
  <<"/", "2", "4", "\t", "X">>

\* A hexadecimal prefix that does not fit a u64.
LTooLong ==
  <<"1", "1", "1", "1", "2", "2", "2", "2", "3", "3", "3", "3", "4", "4", "4", "4", "5", "\t", "X">>

Corpus ==
  {LParent, LChild, LKid, LDeep, LOther, LDefault, LNoName, LUnaligned,
   LEmpty, LComment,
   LSpaces, LTab, LIndented, LOneField, LFive, LMask7, LMask49,
   LMaskX, LMask300, LTwoSlash, LNotHex, LNoPrefix, LTooLong}

\* The MAC addresses queried, as six bytes.
Macs ==
  { <<0, 80, 194, 0, 31, 255>>,    \* 00:50:C2:00:1F:FF
    <<0, 80, 194, 255, 0, 0>>,     \* 00:50:C2:FF:00:00
    <<0, 80, 194, 0, 0, 1>>,       \* 00:50:C2:00:00:01
    <<0, 80, 194, 0, 16, 0>>,      \* 00:50:C2:00:10:00
    <<255, 0, 0, 0, 0, 0>>,        \* FF:00:00:00:00:00
    <<0, 0, 255, 0, 0, 0>>,        \* 00:00:FF:00:00:00
    <<0, 0, 24, 0, 0, 0>>,         \* 00:00:18:00:00:00
    <<0, 0, 25, 0, 0, 0>>,         \* 00:00:19:00:00:00
    <<0, 0, 0, 0, 15, 255>> }      \* 00:00:00:00:0F:FF

\* The number of lines of the longest file read.
MaxLines == 3

(***************************************************************************)
(* State                                                                   *)
(***************************************************************************)

VARIABLES
  pc,           \* new_from_file: "reading" the lines, "loaded" (Ok), "failed" (Err)
  file,         \* the lines read by the call in progress or failed, in order
  vendor_data,  \* the OuiMap create_oui_db_from_file is filling
  database,     \* the OuiMap of the OuiDatabase new_from_file returned, if any
  dump,         \* the bytes export returned, if any
  database2,    \* the outcome of new_from_export on the dump
  answer        \* the last query on the database and what it returned

vars == <<pc, file, vendor_data, database, dump, database2, answer>>

NotRun == [kind |-> "none"]

Init ==
  /\ pc = "reading"
  /\ file = <<>>
  /\ vendor_data = EmptyMap
  /\ database = None
  /\ dump = None
  /\ database2 = NotRun
  /\ answer = NotRun

(***************************************************************************)
(* Operations                                                              *)
(***************************************************************************)

\* One turn of the loop over the lines of the file.
ReadLine(entry) ==
  /\ pc = "reading"
  /\ Len(file) < MaxLines
  /\ file' = Append(file, entry)
  /\ LET out == Body(entry) IN
       /\ pc' = IF out.kind = "err" THEN "failed" ELSE "reading"
       /\ vendor_data' = IF out.kind = "insert"
                         THEN Insert(vendor_data, out.key, out.value)
                         ELSE vendor_data
  /\ UNCHANGED <<database, dump, database2, answer>>

\* The end of the file: create_oui_db_from_file returns Ok(vendor_data),
\* the reader and its lines are dropped, and new_from_file wraps the map in
\* an OuiDatabase.
EndOfFile ==
  /\ pc = "reading"
  /\ pc' = "loaded"
  /\ file' = <<>>
  /\ database' = Some(vendor_data)
  /\ UNCHANGED <<vendor_data, dump, database2, answer>>

\* query_by_mac on the database new_from_file returned.
QueryByMac(mac) ==
  /\ pc = "loaded"
  /\ answer' = [kind |-> "asked", mac |-> mac,
                out |-> query(database[1], mac_to_u64(mac))]
  /\ UNCHANGED <<pc, file, vendor_data, database, dump, database2>>

\* export of the database new_from_file returned.
Export ==
  /\ pc = "loaded"
  /\ dump = None
  /\ dump' = Some(serialize(database[1]))
  /\ UNCHANGED <<pc, file, vendor_data, database, database2, answer>>

\* new_from_export on the exported bytes.
NewFromExport ==
  /\ dump # None
  /\ database2 = NotRun
  /\ database2' = LET deserialized == deserialize(dump[1])
                  IN IF deserialized = None THEN [kind |-> "Err"]
                     ELSE [kind |-> "Ok", database |-> deserialized[1]]
  /\ UNCHANGED <<pc, file, vendor_data, database, dump, answer>>

Next ==
  \/ \E entry \in Corpus : ReadLine(entry)
  \/ EndOfFile
  \/ \E mac \in Macs : QueryByMac(mac)
  \/ Export
  \/ NewFromExport

Spec == Init /\ [][Next]_vars

(***************************************************************************)
(* Vocabulary of the properties                                            *)
(***************************************************************************)

\* The interval k = (lo, hi) contains the address q.
Holds(k, q) == Le64(k[1], q) /\ Le64(q, k[2])

\* The stored intervals that contain q.
Containing(map, q) == {k \in DOMAIN map : Holds(k, q)}

\* Interval i is a proper subset of interval j.
ProperSubrange(i, j) == i # j /\ Le64(j[1], i[1]) /\ Le64(i[2], j[2])

\* A query has been made; Queried is its address as a number.
Asked == answer.kind = "asked"

Queried == mac_to_u64(answer.mac)

Found(e) == [kind |-> "Ok", value |-> Some(e)]

Absent == [kind |-> "Ok", value |-> None]

One64 == <<0, 0, 1>>

\* x + y on u64, wrapping.
Add64(x, y) ==
  LET c == x[3] + y[3]
      b == x[2] + y[2] + (c \div Limb)
      a == x[1] + y[1] + (b \div Limb)
  IN <<a % TopLimb, b % Limb, c % Limb>>

\* The line read last.
LastLine == file[Len(file)]

\* What the loop body does with each line of the corpus.
Outcome == [entry \in Corpus |-> Body(entry)]

\* The lines of the file that led to an insertion.
Accepted == {i \in 1..Len(file) : Outcome[file[i]].kind = "insert"}

(***************************************************************************)
(* C1                                                                      *)
(***************************************************************************)

\* C1: when the queried address lies in exactly two stored intervals, one a
\* proper subset of the other (whatever their lower bounds), the query
\* returns the entry of the narrower interval.
C1_LongestMatch ==
  Asked =>
    \A i1, i2 \in DOMAIN database[1] :
      (Containing(database[1], Queried) = {i1, i2} /\ ProperSubrange(i1, i2))
        => answer.out = Found(database[1][i1])

(***************************************************************************)
(* C2                                                                      *)
(***************************************************************************)

\* C2: a query whose address lies in exactly one stored interval returns
\* Ok(Some(entry of that interval)); one whose address lies in no interval
\* returns Ok(None); neither returns an error.
C2_AtMostOneMatch ==
  Asked =>
    LET hits == Containing(database[1], Queried) IN
      /\ \A k \in hits : hits = {k} => answer.out = Found(database[1][k])
      /\ hits = {} => answer.out = Absent
      /\ Cardinality(hits) <= 1 => answer.out.kind = "Ok"

\* A query answered from the single interval that contains its address, at
\* that interval's upper end.
C2_Witness ==
  /\ Asked
  /\ \E k \in DOMAIN database[1] :
       /\ Containing(database[1], Queried) = {k}
       /\ Queried = k[2]
       /\ answer.out = Found(database[1][k])

(***************************************************************************)
(* C3                                                                      *)
(***************************************************************************)

\* C3: a query returns an error exactly when three or more stored intervals
\* contain its address; with an error it returns no entry.
C3_RejectDeepNesting ==
  Asked =>
    (Cardinality(Containing(database[1], Queried)) >= 3
       <=> answer.out = [kind |-> "Err"])

\* A query whose address lies in three stored intervals, answered by an
\* error.
C3_Witness ==
  /\ Asked
  /\ Cardinality(Containing(database[1], Queried)) >= 3
  /\ answer.out.kind = "Err"

(***************************************************************************)
(* C4                                                                      *)
(***************************************************************************)

\* The entry of the line LDefault.
EntryX == OuiEntry(<<"X">>, None, None)

\* A map holding the entry X and nothing else: what the file with LDefault
\* as its single data line builds.
OnlyX(map) ==
  Cardinality(DOMAIN map) = 1 /\ \A k \in DOMAIN map : map[k] = EntryX

\* FF:00:00:00:00:00 and 00:00:FF:00:00:00.
MacFF == <<255, 0, 0, 0, 0, 0>>

Mac0000FF == <<0, 0, 255, 0, 0, 0>>

\* C4 as stated: the single data line "FF<tab>X" yields the interval
\* lo = 0xFF0000000000, hi = 0xFFFFFFFFFFFF, and FF:00:00:00:00:00 is
\* answered with X.
C4_AsStated ==
  /\ (pc = "reading" /\ file = <<LDefault>>)
       => vendor_data = (<< <<0, 255 * 65536, 0>>, All48 >> :> EntryX)
  /\ (Asked /\ OnlyX(database[1]) /\ answer.mac = MacFF)
       => answer.out = Found(EntryX)

\* C4 (amended): the single data line "FF<tab>X" yields the interval
\* lo = 0x0000FF000000, hi = 0x0000FFFFFFFF (the prefix 0xFF shifted left by
\* 24 bits); FF:00:00:00:00:00 is answered with absent and
\* 00:00:FF:00:00:00 with X.
C4_DefaultMaskShift ==
  /\ (pc = "reading" /\ file = <<LDefault>>)
       => vendor_data = (<< <<0, 255, 0>>, <<0, 255, Limb - 1>> >> :> EntryX)
  /\ (Asked /\ OnlyX(database[1]) /\ answer.mac = MacFF)
       => answer.out = Absent
  /\ (Asked /\ OnlyX(database[1]) /\ answer.mac = Mac0000FF)
       => answer.out = Found(EntryX)

\* FF:00:00:00:00:00 asked of the database built from "FF<tab>X" alone.
C4_Witness ==
  /\ Asked
  /\ OnlyX(database[1])
  /\ answer.mac = MacFF
  /\ answer.out = Absent

(***************************************************************************)
(* C5                                                                      *)
(***************************************************************************)

\* C5: every key (lo, hi) inserted is the block of some mask m with
\* 8 <= m <= 48: lo <= hi <= 0xFFFFFFFFFFFF, the low 48 - m bits of lo are
\* zero, and hi - lo + 1 = 2^(48 - m).
C5_BlockShape ==
  \A k \in DOMAIN vendor_data :
    \E m \in MinMask..MaxMask :
      /\ Le64(k[1], k[2]) /\ Le64(k[2], All48)
      /\ Shl64(Shr64(k[1], 48 - m), 48 - m) = k[1]
      /\ Add64(k[2], One64) = Add64(k[1], Shl64(One64, 48 - m))

(***************************************************************************)
(* C6                                                                      *)
(***************************************************************************)

\* A line that is empty after trimming, or whose first character after
\* leading whitespace is '#'.
Skippable(entry) ==
  Trim(entry) = <<>> \/ Head(TrimStart(entry)) = "#"

\* C6: reading a line that is empty after trimming, or whose first
\* non-whitespace character is '#', raises no error and leaves the index
\* unchanged; reading goes on.
C6_LineSkipping ==
  [][(pc = "reading" /\ Len(file') = Len(file) + 1
        /\ Skippable(file'[Len(file')]))
       => (pc' = "reading" /\ vendor_data' = vendor_data)]_vars

(***************************************************************************)
(* C7                                                                      *)
(***************************************************************************)

\* The number of non-empty fields among the cleaned fields of a line.
NonEmptyFields(entry) ==
  Len(SelectSeq(FieldsCleaned(entry), LAMBDA f : f # <<>>))

\* C7: every line that led to an insertion has 2, 3 or 4 non-empty cleaned
\* fields, and no entry of the index, under construction or returned, has an
\* empty name_short.
C7_ShortNameRequired ==
  /\ \A i \in Accepted : NonEmptyFields(file[i]) \in 2..4
  /\ \A k \in DOMAIN vendor_data : vendor_data[k].name_short # <<>>
  /\ database # None =>
       \A k \in DOMAIN database[1] : database[1][k].name_short # <<>>

(***************************************************************************)
(* C8                                                                      *)
(***************************************************************************)

\* C8: new_from_export on the exported bytes succeeds and gives a database
\* of the same len() whose query result agrees with the original's for
\* every address.
C8_RoundTrip ==
  database2 # NotRun =>
    /\ database2.kind = "Ok"
    /\ Cardinality(DOMAIN database2.database) = Cardinality(DOMAIN database[1])
    /\ \A mac \in Macs :
         query(database2.database, mac_to_u64(mac))
           = query(database[1], mac_to_u64(mac))

\* A database of nested blocks, one of them with a long name, exported and
\* imported again.
C8_Witness ==
  /\ database2 # NotRun
  /\ database2.kind = "Ok"
  /\ Cardinality(DOMAIN database2.database) >= 2
  /\ \E k \in DOMAIN database[1] : database[1][k].name_long # None
  /\ \E mac \in Macs : query(database[1], mac_to_u64(mac)).kind = "Err"

(***************************************************************************)
(* C9                                                                      *)
(***************************************************************************)

HexChars ==
  {"0", "1", "2", "3", "4", "5", "6", "7", "8", "9",
   "A", "B", "C", "D", "E", "F", "a", "b", "c", "d", "e", "f"}

DecValue ==
  [c \in {"0", "1", "2", "3", "4", "5", "6", "7", "8", "9"} |->
     CASE c = "0" -> 0 [] c = "1" -> 1 [] c = "2" -> 2 [] c = "3" -> 3
       [] c = "4" -> 4 [] c = "5" -> 5 [] c = "6" -> 6 [] c = "7" -> 7
       [] c = "8" -> 8 [] c = "9" -> 9]

\* A number's text without its optional leading '+'.
Unsigned(s) == IF s # <<>> /\ s[1] = "+" THEN Tail(s) ELSE s

\* The value of a string of decimal digits, or 1000 when it is larger.
RECURSIVE DecimalValue(_, _)
DecimalValue(ds, acc) ==
  IF ds = <<>> THEN acc
  ELSE IF (acc * 10) + DecValue[Head(ds)] > 1000 THEN 1000
  ELSE DecimalValue(Tail(ds), (acc * 10) + DecValue[Head(ds)])

\* The text is a decimal integer in [8, 48].
IsMaskInRange(s) ==
  /\ Unsigned(s) # <<>>
  /\ \A i \in 1..Len(Unsigned(s)) : Unsigned(s)[i] \in DOMAIN DecValue
  /\ DecimalValue(Unsigned(s), 0) >= 8
  /\ DecimalValue(Unsigned(s), 0) <= 48

\* The text is a hexadecimal integer: hexadecimal digits, of either case,
\* after an optional '+'.
IsHexadecimal(s) ==
  /\ Unsigned(s) # <<>>
  /\ \A i \in 1..Len(Unsigned(s)) : Unsigned(s)[i] \in HexChars

CountChar(s, c) == Len(SelectSeq(s, LAMBDA x : x = c))

\* A data line with a field count outside 2..4, more than one '/' in its
\* block specifier, a mask that is no decimal integer in [8, 48], or a
\* prefix that is not hexadecimal once ':', '-' and '.' are stripped.
BadLine(entry) ==
  /\ HasData(entry)
  /\ LET fields == FieldsCleaned(entry)
         parts == Split(fields[1], "/")
     IN \/ Len(fields) < 2
        \/ Len(fields) > 4
        \/ CountChar(fields[1], "/") > 1
        \/ CountChar(fields[1], "/") = 1 /\ ~IsMaskInRange(parts[2])
        \/ ~IsHexadecimal(
              RemoveChar(RemoveChar(RemoveChar(parts[1], ":"), "-"), "."))

\* The bad lines of the corpus.
BadLines == {entry \in Corpus : BadLine(entry)}

\* C9: once a bad data line has been read, new_from_file has failed at that
\* line (no line is read after it) and has returned no OuiDatabase, whatever
\* the valid lines before it.
C9_FailFast ==
  /\ \A i \in 1..Len(file) :
       file[i] \in BadLines => (pc = "failed" /\ i = Len(file))
  /\ pc = "failed" => database = None

\* A failure at a bad line that follows lines already inserted.
C9_Witness ==
  /\ pc = "failed"
  /\ Len(file) >= 2
  /\ LastLine \in BadLines
  /\ DOMAIN vendor_data # {}
  /\ database = None

(***************************************************************************)
(* C10                                                                     *)
(***************************************************************************)

\* The last line of the file that produced key k.
LastFor(k) ==
  CHOOSE i \in Accepted :
    /\ Outcome[file[i]].key = k
    /\ \A j \in Accepted : Outcome[file[j]].key = k => j <= i

\* C10: while the file is read, the index holds exactly the keys the
\* accepted lines produced, each with the entry of the last line that
\* produced it; a repeated key raises no error; and the database returned
\* is that index, so len() counts the distinct keys.
C10_LastWriteWins ==
  /\ pc # "loaded" =>
       LET keys == {Outcome[file[i]].key : i \in Accepted} IN
         /\ DOMAIN vendor_data = keys
         /\ \A k \in keys : vendor_data[k] = Outcome[file[LastFor(k)]].value
         /\ Cardinality(DOMAIN vendor_data) = Cardinality(keys)
         /\ pc = "failed" => Outcome[LastLine].kind = "err"
  /\ pc = "loaded" => database = Some(vendor_data)

\* Two lines with the same key and different entries: the index holds one
\* key, with the entry of the second.
C10_Witness ==
  /\ pc = "reading"
  /\ Len(file) = 2
  /\ Accepted = {1, 2}
  /\ Outcome[file[1]].key = Outcome[file[2]].key
  /\ Outcome[file[1]].value # Outcome[file[2]].value
  /\ Cardinality(DOMAIN vendor_data) = 1
  /\ \A k \in DOMAIN vendor_data : vendor_data[k] = Outcome[file[2]].value

====
